---- MODULE Spec2Model ----
(***************************************************************************)
(* Model of scripts/mqtt_wakeup.py: a command-line tool that connects to   *)
(* an MQTT broker, publishes one wakeup message and exits.                 *)
(*                                                                         *)
(* Two threads of control exist: the main flow (main -> parse_args ->      *)
(* connect_mqtt -> send_wakeup_message -> cleanup) and the client          *)
(* library's network thread, alive between loop_start() and loop_stop(),   *)
(* which runs the callbacks on_connect and on_disconnect.  They share the  *)
(* globals `client` and `connected`.                                       *)
(*                                                                         *)
(* Time is counted in ticks of the poll interval (time.sleep(0.1)).        *)
(***************************************************************************)
EXTENDS Integers, Sequences, FiniteSets, TLC

VARIABLES
    pc,            \* position of the main flow
    argv,          \* the command line: flag -> value, or Absent
    args,          \* the Namespace parse_args returned, or None
    client,        \* global `client` (line 17)
    connected,     \* global `connected` (line 18)
    loopRunning,   \* the library's network thread is alive
    elapsed,       \* time.time() - start_time, in ticks
    exc,           \* the exception being propagated in main, or None
    ret,           \* the value main() is about to return, or NoCode
    exitCode,      \* the process exit status, or NoCode
    connectReturned, \* connect_mqtt has returned
    connectResult, \* what connect_mqtt returned (meaningful once connectReturned)
    pubStatus,     \* result[0] of client.publish, or NoCode
    pubTopic,      \* the topic handed to client.publish, or None
    calls,         \* the calls the main flow made, in order
    pubConnected,  \* history: value of `connected` at the publish call (TRUE before it)
    waitOver,      \* history: the wait loop of line 78 has been left
    okInWait,      \* history: on_connect(rc = 0) ran before the wait was left
    okBeforeCheck, \* history: on_connect(rc = 0) ran before line 81 was evaluated
    okInTime,      \* history: on_connect(rc = 0) ran while elapsed < max_wait
    raisedAt       \* history: position at which an exception was raised, or None

vars == <<pc, argv, args, client, connected, loopRunning, elapsed, exc, ret,
          exitCode, connectReturned, connectResult, pubStatus, pubTopic, calls, pubConnected,
          waitOver, okInWait, okBeforeCheck, okInTime, raisedAt>>

-----------------------------------------------------------------------------
(* Values *)

None == "<None>"
Absent == "<absent>"

\* stands for "no value yet" where the values are integers
NoCode == -1

\* Bound: the largest overshoot, in ticks, of one time.sleep(0.1)
MaxJitter == 1

\* max_wait = 5 (seconds)
max_wait == 5

\* time.sleep(0.1): ticks per second
TicksPerSecond == 10

MaxWaitTicks == max_wait * TicksPerSecond

\* exit status of argparse's parser.error()
ArgparseErrorStatus == 2

\* rc values delivered to on_connect / on_disconnect
RcValues == {0, 5}

\* immediate status values of client.publish: MQTT_ERR_SUCCESS, MQTT_ERR_NO_CONN
PublishStatuses == {0, 4}

ExceptionKinds == {"KeyboardInterrupt", "Exception"}

\* The command lines explored.  Absent means the flag is not given.
ArgvSet ==
    [device_id : {Absent, "abc123", "d1"},
     server    : {Absent},
     port      : {Absent, "8883"},
     username  : {Absent},
     password  : {Absent},
     topic     : {Absent, "", "custom/topic"},
     reason    : {Absent, "test"}]

-----------------------------------------------------------------------------
(* parse_args, lines 21-31 *)

\* type=int of --port
IntOf(s) == CASE s = "8883" -> 8883
              [] s = "1883" -> 1883

\* the default= of every optional flag
Defaults ==
    [server   |-> "localhost",
     port     |-> 1883,
     username |-> "",
     password |-> "",
     topic    |-> "",
     reason   |-> "remote_wakeup"]

\* variant: --device-id is not required
ParseFails_NotRequired(av) == FALSE

\* required=True of --device-id
ParseFails(av) == av.device_id = Absent

Namespace(av) ==
    [device_id |-> av.device_id,
     server    |-> IF av.server = Absent THEN Defaults.server ELSE av.server,
     port      |-> IF av.port = Absent THEN Defaults.port ELSE IntOf(av.port),
     username  |-> IF av.username = Absent THEN Defaults.username ELSE av.username,
     password  |-> IF av.password = Absent THEN Defaults.password ELSE av.password,
     topic     |-> IF av.topic = Absent THEN Defaults.topic ELSE av.topic,
     reason    |-> IF av.reason = Absent THEN Defaults.reason ELSE av.reason]

-----------------------------------------------------------------------------
(* Pure parts of the handlers *)

\* on_connect, lines 37-41: the new value of `connected`
OnConnectFlag(rc, c) == IF rc = 0 THEN TRUE ELSE c

\* on_disconnect, line 48
OnDisconnectFlag(rc, c) == FALSE

\* the loop condition of line 78
WaitContinues(c, e) == ~c /\ e < MaxWaitTicks

\* variant: the flag is not tested again after the wait
ConnectFailed_NoTest(c) == FALSE

\* the test of line 81
ConnectFailed(c) == ~c

\* variant: --topic is ignored
WakeupTopic_AlwaysDerived(a) == "device/" \o a.device_id \o "/wakeup"

\* send_wakeup_message, lines 92-95
WakeupTopic(a) ==
    IF a.topic # "" THEN a.topic
    ELSE "device/" \o a.device_id \o "/wakeup"

\* variant: the publish status is not inspected
PublishOk_Unchecked(status) == TRUE

\* send_wakeup_message, lines 110-117
PublishOk(status) == status = 0

\* variant: the result of connect_mqtt is ignored
AfterConnect_Ignored(ok) == "send"

\* main, lines 130-131: where control goes after connect_mqtt
AfterConnect(ok) == IF ~ok THEN "finally" ELSE "send"

\* variant: a failed publish is retried
AfterSend_Retry(ok) == IF ~ok THEN "send" ELSE "pause"

\* main, lines 134-135: where control goes after send_wakeup_message
AfterSend(ok) == IF ~ok THEN "finally" ELSE "pause"

\* main, line 149: the guard of the cleanup
CleanupNeeded(cl) == cl # None

\* variant: the fall-through return yields the status of an argument error
FallThroughReturn_Two == ArgparseErrorStatus

\* main, line 154
FallThroughReturn == 1

\* positions of the main flow inside the try block of lines 128-141
TryPcs == {"create", "connect", "loop_start", "wait_cond", "wait_sleep",
           "check", "timeout_stop", "connect_return", "send", "send_status",
           "pause", "return0"}

Count(s, x) == Cardinality({i \in 1..Len(s) : s[i] = x})

-----------------------------------------------------------------------------
Init ==
    /\ pc = "parse"
    /\ argv \in ArgvSet
    /\ args = None
    /\ client = None
    /\ connected = FALSE
    /\ loopRunning = FALSE
    /\ elapsed = 0
    /\ exc = None
    /\ ret = NoCode
    /\ exitCode = NoCode
    /\ connectReturned = FALSE
    /\ connectResult = FALSE
    /\ pubStatus = NoCode
    /\ pubTopic = None
    /\ calls = <<>>
    /\ pubConnected = TRUE
    /\ waitOver = FALSE
    /\ okInWait = FALSE
    /\ okBeforeCheck = FALSE
    /\ okInTime = FALSE
    /\ raisedAt = None

hist == <<pubConnected, waitOver, okInWait, okBeforeCheck, okInTime, raisedAt>>
results == <<connectReturned, connectResult, pubStatus, pubTopic>>
globals == <<client, connected, loopRunning>>

-----------------------------------------------------------------------------
(* The main flow *)

\* main, line 126: parse_args(); argparse exits the process on an error
ParseArgs ==
    /\ pc = "parse"
    /\ calls' = Append(calls, "parse_args")
    /\ IF ParseFails(argv)
       THEN /\ pc' = "done"
            /\ exitCode' = ArgparseErrorStatus
            /\ args' = args
       ELSE /\ pc' = "create"
            /\ args' = Namespace(argv)
            /\ exitCode' = exitCode
    /\ UNCHANGED <<argv, globals, elapsed, exc, ret, results, hist>>

\* connect_mqtt, lines 55-66: create the client, set credentials, callbacks, userdata
CreateClient ==
    /\ pc = "create"
    /\ client' = "Client"
    /\ calls' = Append(calls, "Client")
    /\ pc' = "connect"
    /\ UNCHANGED <<argv, args, connected, loopRunning, elapsed, exc, ret,
                   exitCode, results, hist>>

\* connect_mqtt, line 70: client.connect(server, port, keepalive=60) returns
Connect ==
    /\ pc = "connect"
    /\ calls' = Append(calls, "connect")
    /\ pc' = "loop_start"
    /\ UNCHANGED <<argv, args, globals, elapsed, exc, ret, exitCode, results, hist>>

\* connect_mqtt, lines 73-77: client.loop_start(); start_time = time.time()
LoopStart ==
    /\ pc = "loop_start"
    /\ calls' = Append(calls, "loop_start")
    /\ loopRunning' = TRUE
    /\ elapsed' = 0
    /\ pc' = "wait_cond"
    /\ UNCHANGED <<argv, args, client, connected, exc, ret, exitCode, results, hist>>

\* connect_mqtt, line 78: evaluate the loop condition
WaitCond ==
    /\ pc = "wait_cond"
    /\ IF WaitContinues(connected, elapsed)
       THEN /\ pc' = "wait_sleep"
            /\ waitOver' = waitOver
       ELSE /\ pc' = "check"
            /\ waitOver' = TRUE
    /\ UNCHANGED <<argv, args, globals, elapsed, exc, ret, exitCode, results,
                   calls, pubConnected, okInWait, okBeforeCheck, okInTime, raisedAt>>

\* connect_mqtt, line 79: time.sleep(0.1) returns after at least one tick
WaitSleep ==
    /\ pc = "wait_sleep"
    /\ \E d \in 1..(1 + MaxJitter) : elapsed' = elapsed + d
    /\ pc' = "wait_cond"
    /\ UNCHANGED <<argv, args, globals, exc, ret, exitCode, results, calls, hist>>

\* connect_mqtt, lines 81 and 86: test the flag again; return True when it is set
Check ==
    /\ pc = "check"
    /\ pc' = IF ConnectFailed(connected) THEN "timeout_stop" ELSE "connect_return"
    /\ connectReturned' = ~ConnectFailed(connected)
    /\ connectResult' = ~ConnectFailed(connected)
    /\ UNCHANGED <<argv, args, globals, elapsed, exc, ret, exitCode, pubStatus,
                   pubTopic, calls, hist>>

\* connect_mqtt, lines 82-84: report the timeout, client.loop_stop(), return False
TimeoutStop ==
    /\ pc = "timeout_stop"
    /\ calls' = Append(calls, "loop_stop")
    /\ loopRunning' = FALSE
    /\ connectReturned' = TRUE
    /\ connectResult' = FALSE
    /\ pc' = "connect_return"
    /\ UNCHANGED <<argv, args, client, connected, elapsed, exc, ret, exitCode,
                   pubStatus, pubTopic, hist>>

\* main, lines 130-131: if not connect_mqtt(args): return 1
ConnectReturn ==
    /\ pc = "connect_return"
    /\ pc' = AfterConnect(connectResult)
    /\ ret' = IF AfterConnect(connectResult) = "finally" THEN 1 ELSE ret
    /\ UNCHANGED <<argv, args, globals, elapsed, exc, exitCode, results, calls, hist>>

\* send_wakeup_message, lines 92-107: build topic and payload, client.publish(..., qos=1)
Publish ==
    /\ pc = "send"
    /\ \E st \in PublishStatuses : pubStatus' = st
    /\ pubTopic' = WakeupTopic(args)
    /\ pubConnected' = connected
    /\ calls' = Append(calls, "publish")
    /\ pc' = "send_status"
    /\ UNCHANGED <<argv, args, globals, elapsed, exc, ret, exitCode, connectReturned,
                   connectResult, waitOver, okInWait, okBeforeCheck, okInTime, raisedAt>>

\* send_wakeup_message, lines 110-117, and main, lines 134-135
SendStatus ==
    /\ pc = "send_status"
    /\ pc' = AfterSend(PublishOk(pubStatus))
    /\ ret' = IF AfterSend(PublishOk(pubStatus)) = "finally" THEN 1 ELSE ret
    /\ UNCHANGED <<argv, args, globals, elapsed, exc, exitCode, results, calls, hist>>

\* main, line 138: time.sleep(1)
Pause ==
    /\ pc = "pause"
    /\ calls' = Append(calls, "sleep")
    /\ pc' = "return0"
    /\ UNCHANGED <<argv, args, globals, elapsed, exc, ret, exitCode, results, hist>>

\* main, lines 140-141: return 0
ReturnZero ==
    /\ pc = "return0"
    /\ ret' = 0
    /\ pc' = "finally"
    /\ UNCHANGED <<argv, args, globals, elapsed, exc, exitCode, results, calls, hist>>

\* A KeyboardInterrupt or another exception is raised inside the try block
Raise ==
    /\ pc \in TryPcs
    /\ \E k \in ExceptionKinds : exc' = k
    /\ raisedAt' = pc
    /\ pc' = "except"
    /\ UNCHANGED <<argv, args, globals, elapsed, ret, exitCode, results, calls,
                   pubConnected, waitOver, okInWait, okBeforeCheck, okInTime>>

\* main, lines 143-146: both handlers print and fall through
Except ==
    /\ pc = "except"
    /\ exc' = None
    /\ pc' = "finally"
    /\ UNCHANGED <<argv, args, globals, elapsed, ret, exitCode, results, calls, hist>>

\* main, lines 147-152: the finally block
Finally ==
    /\ pc = "finally"
    /\ IF CleanupNeeded(client)
       THEN /\ calls' = calls \o <<"loop_stop", "disconnect">>
            /\ loopRunning' = FALSE
       ELSE UNCHANGED <<calls, loopRunning>>
    /\ pc' = "exit"
    /\ UNCHANGED <<argv, args, client, connected, elapsed, exc, ret, exitCode,
                   results, hist>>

\* main, line 154, and line 158: exit(main())
Exit ==
    /\ pc = "exit"
    /\ exitCode' = IF ret = NoCode THEN FallThroughReturn ELSE ret
    /\ pc' = "done"
    /\ UNCHANGED <<argv, args, globals, elapsed, exc, ret, results, calls, hist>>

-----------------------------------------------------------------------------
(* The network thread *)

\* on_connect, lines 34-41
OnConnect ==
    /\ loopRunning
    /\ \E rc \in RcValues :
        /\ connected' = OnConnectFlag(rc, connected)
        /\ okInWait' = (okInWait \/ (rc = 0 /\ ~waitOver))
        /\ okBeforeCheck' = (okBeforeCheck \/ (rc = 0 /\ pc \in {"wait_cond", "wait_sleep", "check"}))
        /\ okInTime' = (okInTime \/ (rc = 0 /\ elapsed < MaxWaitTicks))
    /\ UNCHANGED <<pc, argv, args, client, loopRunning, elapsed, exc, ret, exitCode,
                   results, calls, pubConnected, waitOver, raisedAt>>

\* on_disconnect, lines 44-48
OnDisconnect ==
    /\ loopRunning
    /\ \E rc \in RcValues : connected' = OnDisconnectFlag(rc, connected)
    /\ UNCHANGED <<pc, argv, args, client, loopRunning, elapsed, exc, ret, exitCode,
                   results, calls, hist>>

-----------------------------------------------------------------------------
Next ==
    \/ ParseArgs
    \/ CreateClient
    \/ Connect
    \/ LoopStart
    \/ WaitCond
    \/ WaitSleep
    \/ Check
    \/ TimeoutStop
    \/ ConnectReturn
    \/ Publish
    \/ SendStatus
    \/ Pause
    \/ ReturnZero
    \/ Raise
    \/ Except
    \/ Finally
    \/ Exit
    \/ OnConnect
    \/ OnDisconnect

Spec == Init /\ [][Next]_vars

-----------------------------------------------------------------------------
(* Properties *)

Done == pc = "done"
ConnectOk == connectReturned /\ connectResult
ConnectTimedOut == connectReturned /\ ~connectResult
Published == Count(calls, "publish") > 0
DerivedTopic == "device/" \o argv.device_id \o "/wakeup"

\* C1: on every terminal path of main() on which the client exists, loop_stop()
\* has been called exactly once and disconnect() exactly once.
C1_ShutdownExactlyOnce ==
    (Done /\ client # None) =>
        /\ Count(calls, "loop_stop") = 1
        /\ Count(calls, "disconnect") = 1

C4_NoNotificationInWait ==
    (waitOver /\ ~okInWait) => (~ConnectOk /\ ~Published)

\* C4 (amended): if no on_connect with rc = 0 ran before connect_mqtt tested the
\* flag after the wait (line 81), connect_mqtt returns False and publish is
\* never called.
C4_NoNotificationBeforeCheck ==
    ~okBeforeCheck => /\ ~ConnectOk
                      /\ ~Published
                      /\ pc \in {"timeout_stop", "connect_return"} => ~connectResult

C4_Witness ==
    Done /\ ConnectTimedOut /\ ~okBeforeCheck /\ ~Published /\ elapsed >= MaxWaitTicks

\* C5: client.connect and client.publish are each called at most once, and
\* after a connection timeout, a publish failure or a raised exception no
\* further connect or publish is made.
Terminal ==
    \/ ConnectTimedOut
    \/ pubStatus \notin {NoCode, 0}
    \/ raisedAt # None

C5_NothingRetried ==
    [][/\ Count(calls', "connect") <= 1
       /\ Count(calls', "publish") <= 1
       /\ Terminal => /\ Count(calls', "connect") = Count(calls, "connect")
                      /\ Count(calls', "publish") = Count(calls, "publish")]_vars

C5_Witness ==
    Done /\ pubStatus = 4 /\ Count(calls, "publish") = 1 /\ Count(calls, "connect") = 1

\* C6: the calls occur in the order parse, connect, publish, pause, disconnect;
\* publish is only called after connect_mqtt returned True, and the cleanup's
\* loop_stop and disconnect only after the publish step is over.
Rank(c) ==
    CASE c = "parse_args" -> 0
      [] c = "Client"     -> 1
      [] c = "connect"    -> 2
      [] c = "loop_start" -> 3
      [] c = "publish"    -> 4
      [] c = "sleep"      -> 5
      [] c = "loop_stop"  -> 6
      [] c = "disconnect" -> 7

C6_LinearOrder ==
    /\ \A i, j \in 1..Len(calls) : i < j => Rank(calls[i]) <= Rank(calls[j])
    /\ Published => ConnectOk
    /\ Count(calls, "disconnect") > 0 => pc \in {"exit", "done"}

C6_Witness ==
    /\ Done
    /\ calls = <<"parse_args", "Client", "connect", "loop_start", "publish",
                 "sleep", "loop_stop", "disconnect">>

\* C7: without --device-id the process ends at the argument error before any
\* network activity; with it, parsing succeeds and every flag not given has
\* its default.
C7_MissingDeviceId ==
    pc # "parse" =>
        IF argv.device_id = Absent
        THEN /\ Done
             /\ calls = <<"parse_args">>
             /\ client = None
             /\ ~loopRunning
             /\ exitCode # 0
        ELSE /\ args.device_id = argv.device_id
             /\ argv.server = Absent => args.server = "localhost"
             /\ argv.port = Absent => args.port = 1883
             /\ argv.port = "8883" => args.port = 8883
             /\ argv.username = Absent => args.username = ""
             /\ argv.password = Absent => args.password = ""
             /\ argv.topic = Absent => args.topic = ""
             /\ argv.topic # Absent => args.topic = argv.topic
             /\ argv.reason = Absent => args.reason = "remote_wakeup"
             /\ argv.reason # Absent => args.reason = argv.reason

C7_Witness ==
    Done /\ argv.device_id = Absent /\ calls = <<"parse_args">> /\ client = None

\* C8: the publish topic is device/<device_id>/wakeup when --topic is not given
\* and the given value whenever --topic is given.
C8_TopicAsSupplied ==
    Published => pubTopic = IF argv.topic = Absent THEN DerivedTopic ELSE argv.topic

\* C8 (amended): the publish topic is device/<device_id>/wakeup when --topic is
\* not given or given as the empty string, and the given value whenever a
\* non-empty --topic is given.
C8_TopicNonEmptyOverride ==
    Published => pubTopic = IF argv.topic \in {Absent, ""} THEN DerivedTopic
                            ELSE argv.topic

C8_Witness ==
    Published /\ argv.topic = "" /\ argv.device_id = "abc123"
              /\ pubTopic = "device/abc123/wakeup"

\* C9: client.publish is only called in a state where `connected` is True.
C9_PublishOnlyWhenConnected ==
    Published => pubConnected

\* C10: connect_mqtt returns False only if the whole wait elapsed without an
\* on_connect with rc = 0, and returns True whenever such an on_connect ran
\* before the wait elapsed.
C10_FailureOnlyOnTimeout ==
    connectReturned =>
        /\ ~connectResult => (elapsed >= MaxWaitTicks /\ ~okInTime)
        /\ okInTime => connectResult

====
